---- MODULE Spec2Model ----
(***************************************************************************)
(* Model of enterprise/signals/prior.py: the Prior wrapper and the two     *)
(* uniform distribution factories.                                         *)
(*                                                                         *)
(* Numbers.  A float64 is modelled as an exact extended rational           *)
(*   [k |-> "fin", n, d]   the rational n/d in lowest terms, d > 0         *)
(*   [k |-> "pinf"], [k |-> "ninf"], [k |-> "nan"]   (n = 0, d = 1)        *)
(* with IEEE rules for the infinities and NaN (NaN compares false with     *)
(* everything, inf - inf = NaN, ...).  Rounding is not modelled.           *)
(* A natural logarithm that is not 0 or infinite is kept symbolically as   *)
(*   [k |-> "ln", n, d]    the real number ln(n/d), n/d > 0, n/d # 1.      *)
(* A Python int is [k |-> "int", n, d |-> 1]; converting it to a float     *)
(* changes the tag.                                                        *)
(***************************************************************************)
EXTENDS Integers, Sequences, FiniteSets, TLC

\* ---------------------------------------------------------------- bounds
MaxLen == 3          \* longest array / sequence passed to pdf or logpdf

\* ------------------------------------------------------------ arithmetic
Abs(i) == IF i < 0 THEN -i ELSE i

RECURSIVE GCD(_, _)
GCD(a, b) == IF b = 0 THEN a ELSE GCD(b, a % b)

F(n, d) ==
  LET s == IF d < 0 THEN -1 ELSE 1
      g == GCD(Abs(n), Abs(d))
  IN  [k |-> "fin", n |-> (s * n) \div g, d |-> (s * d) \div g]

PInf == [k |-> "pinf", n |-> 0, d |-> 1]
NInf == [k |-> "ninf", n |-> 0, d |-> 1]
NaN  == [k |-> "nan",  n |-> 0, d |-> 1]
Zero == F(0, 1)
One  == F(1, 1)
PyInt(i) == [k |-> "int", n |-> i, d |-> 1]

IsNan(x) == x.k = "nan"
IsFin(x) == x.k = "fin"

\* x <= y on float64 (false as soon as one side is NaN)
Leq(x, y) ==
  CASE IsNan(x) \/ IsNan(y) -> FALSE
    [] x.k = "ninf" \/ y.k = "pinf" -> TRUE
    [] x.k = "pinf" \/ y.k = "ninf" -> FALSE
    [] OTHER -> x.n * y.d <= y.n * x.d

Lt(x, y) == Leq(x, y) /\ x # y

\* x - y on float64
Sub(x, y) ==
  CASE IsNan(x) \/ IsNan(y) -> NaN
    [] IsFin(x) /\ IsFin(y) -> F(x.n * y.d - y.n * x.d, x.d * y.d)
    [] IsFin(x) -> IF y.k = "pinf" THEN NInf ELSE PInf
    [] IsFin(y) -> x
    [] OTHER -> IF x.k = y.k THEN NaN ELSE x

Neg(x) == CASE x.k = "pinf" -> NInf [] x.k = "ninf" -> PInf
            [] x.k = "fin" -> F(-x.n, x.d) [] OTHER -> x

\* x / y on float64
Div(x, y) ==
  CASE IsNan(x) \/ IsNan(y) -> NaN
    [] IsFin(x) /\ IsFin(y) ->
         IF y.n # 0 THEN F(x.n * y.d, x.d * y.n)
         ELSE IF x.n = 0 THEN NaN ELSE IF x.n > 0 THEN PInf ELSE NInf
    [] IsFin(x) -> Zero
    [] IsFin(y) -> IF y.n >= 0 THEN x ELSE Neg(x)
    [] OTHER -> NaN

\* np.log
Log(x) ==
  CASE IsNan(x) -> NaN
    [] x.k = "pinf" -> PInf
    [] x.k = "ninf" -> NaN
    [] x.n < 0 -> NaN
    [] x.n = 0 -> NInf
    [] x = One -> Zero
    [] OTHER -> [k |-> "ln", n |-> x.n, d |-> x.d]

\* the number whose logarithm u is
ExpOf(u) ==
  CASE u.k = "ln" -> F(u.n, u.d)
    [] u.k = "ninf" -> Zero
    [] u.k = "fin" -> One       \* the only finite plain logarithm is 0
    [] OTHER -> u

\* u - w where w is a logarithm: u - 0 = u and ln p - ln q = ln (p/q); a
\* non-zero rational u minus a non-zero logarithm is kept as a value of its
\* own kind, equal to no rational and no logarithm
LogSub(u, w) ==
  IF w = Zero THEN u
  ELSE IF u.k = "fin" /\ u # Zero THEN [k |-> "mixed", n |-> u.n, d |-> u.d]
  ELSE Log(Div(ExpOf(u), ExpOf(w)))


SeqMap(Op(_), s) == [i \in 1..Len(s) |-> Op(s[i])]

\* ------------------------------------------------- scipy.stats (library)
\* A distribution object.  frozen = FALSE is an rv_continuous generator
\* instance (pdf/logpdf take loc and scale keywords, default 0 and 1);
\* frozen = TRUE is an rv_frozen (pdf/logpdf take x only).  a, b bound the
\* support of the standardised variable (x - loc) / scale.

\* variant: _pdf built with zeros_like
unnormed_pdf_zeros(x) == Zero

\* UniformUnnormedRV_generator._pdf: np.ones_like(x)
unnormed_pdf(x) == One

\* variant: _logpdf built with ones_like
unnormed_logpdf_ones(x) == One

\* UniformUnnormedRV_generator._logpdf: np.zeros_like(x)
unnormed_logpdf(x) == Zero

\* scipy.stats.uniform: _pdf(x) = 1.0*(x == x); _logpdf is the
\* rv_continuous default log(_pdf(x))
uniform_pdf(x) == IF IsNan(x) THEN Zero ELSE One

uniform_logpdf(x) == Log(uniform_pdf(x))

family_pdf(dist, x) ==
  IF dist.family = "unnormed" THEN unnormed_pdf(x) ELSE uniform_pdf(x)

family_logpdf(dist, x) ==
  IF dist.family = "unnormed" THEN unnormed_logpdf(x) ELSE uniform_logpdf(x)

\* rv_continuous._support_mask: (a <= x) & (x <= b)
support_mask(dist, x) == Leq(dist.a, x) /\ Leq(x, dist.b)

\* rv_continuous.pdf at one point: standardise, badvalue (NaN) for a bad
\* scale or a NaN point, _pdf/scale inside the support, 0 outside
rv_pdf(dist, x, loc, scale) ==
  LET xs    == Div(Sub(x, loc), scale)
      cond0 == Lt(Zero, scale)
  IN  IF ~cond0 \/ IsNan(xs) THEN NaN
      ELSE IF support_mask(dist, xs) THEN Div(family_pdf(dist, xs), scale)
      ELSE Zero

\* rv_continuous.logpdf at one point: as pdf, with -inf outside the support
\* and _logpdf - log(scale) inside
rv_logpdf(dist, x, loc, scale) ==
  LET xs    == Div(Sub(x, loc), scale)
      cond0 == Lt(Zero, scale)
  IN  IF ~cond0 \/ IsNan(xs) THEN NaN
      ELSE IF support_mask(dist, xs)
           THEN LogSub(family_logpdf(dist, xs), Log(scale))
      ELSE NInf

\* ------------------------------------------------------------- factories
\* UniformUnnormedRV: an instance of the generator class with support
\* [lower, upper]; it is not frozen, loc and scale are the call defaults
UniformUnnormedRV(lower, upper) ==
  [frozen |-> FALSE, family |-> "unnormed", a |-> lower, b |-> upper,
   loc |-> Zero, scale |-> One]

\* variant: scipy.stats.uniform(lower, upper), the upper bound passed as scale
UniformBoundedRV_upper(lower, upper) ==
  [frozen |-> TRUE, family |-> "uniform", a |-> Zero, b |-> One,
   loc |-> lower, scale |-> upper]

\* UniformBoundedRV: scipy.stats.uniform(lower, upper - lower), frozen with
\* loc = lower and scale = upper - lower on the standard support [0, 1]
UniformBoundedRV(lower, upper) ==
  [frozen |-> TRUE, family |-> "uniform", a |-> Zero, b |-> One,
   loc |-> lower, scale |-> Sub(upper, lower)]

DefaultUnnormedRV == UniformUnnormedRV(NInf, PInf)

DefaultBoundedRV == UniformBoundedRV(Zero, One)

\* ------------------------------------------------------- values, results
\* A Python value handed to Prior.pdf / Prior.logpdf.
PyFloat(x)     == [ty |-> "float", dtype |-> "float64", data |-> <<x>>, imag |-> <<>>]
PyInteger(i)   == [ty |-> "int", dtype |-> "int", data |-> <<PyInt(i)>>, imag |-> <<>>]
PyComplex(r, i) == [ty |-> "complex", dtype |-> "complex", data |-> <<r>>, imag |-> <<i>>]
NpComplex(r, i) == [ty |-> "np.complex128", dtype |-> "complex128", data |-> <<r>>, imag |-> <<i>>]
NdArray(dt, s) == [ty |-> "ndarray", dtype |-> dt, data |-> s, imag |-> <<>>]
CArray(s, im)  == [ty |-> "ndarray", dtype |-> "complex128", data |-> s, imag |-> im]
PyList(s)      == [ty |-> "list", dtype |-> "float", data |-> s, imag |-> <<>>]
SubArray(s)    == [ty |-> "ndarray_subclass", dtype |-> "float64", data |-> s, imag |-> <<>>]

\* the outcome of a step: a scalar, an array, or a raised exception
Scalar(x)  == [status |-> "ok", shape |-> "scalar", data |-> <<x>>]
Array(s)   == [status |-> "ok", shape |-> "array", data |-> s]
Raise(e)   == [status |-> e, shape |-> "none", data |-> <<>>]
None       == [status |-> "none", shape |-> "none", data |-> <<>>]

\* one element converted to float64
ToF64(e) == IF e.k = "int" THEN F(e.n, 1) ELSE e

\* np.can_cast(dtype, float64, casting='same_kind')
can_cast_same_kind(dt) == dt \in {"bool", "int64", "float32", "float64"}

\* ndarray.astype(np.float64, casting='same_kind')
astype_float64(value) ==
  IF can_cast_same_kind(value.dtype) THEN Array(SeqMap(ToF64, value.data))
  ELSE Raise("TypeError")

\* np.float(value): np.float is the builtin float (numpy before 1.24), so
\* this is float(value); float() of a numpy complex scalar warns and keeps
\* the real part, float() of a Python complex or of a list raises TypeError,
\* float() of an array-like works for exactly one element
np_float(value) ==
  CASE value.ty \in {"float", "int"} -> Scalar(ToF64(value.data[1]))
    [] value.ty = "complex" -> Raise("TypeError")
    [] value.ty = "np.complex128" -> Scalar(value.data[1])
    [] value.ty = "list" -> Raise("TypeError")
    [] OTHER -> IF Len(value.data) = 1 THEN Scalar(ToF64(value.data[1]))
                ELSE Raise("TypeError")

\* variant: no array branch, every value goes through np.float
coerce_scalar_only(value) == np_float(value)

\* variant: dispatch with isinstance(value, np.ndarray)
coerce_isinstance(value) ==
  IF value.ty \in {"ndarray", "ndarray_subclass"} THEN astype_float64(value)
  ELSE np_float(value)

\* the coercion of Prior.pdf / Prior.logpdf: dispatch on the exact type
coerce(value) ==
  IF value.ty = "ndarray" THEN astype_float64(value) ELSE np_float(value)

\* rv.pdf(v) / rv.logpdf(v) with x alone, for a scalar or an array v
obj_pdf(rv, v) ==
  LET at(x) == rv_pdf(rv, x, rv.loc, rv.scale)
  IN  [status |-> "ok", shape |-> v.shape, data |-> SeqMap(at, v.data)]

obj_logpdf(rv, v) ==
  LET at(x) == rv_logpdf(rv, x, rv.loc, rv.scale)
  IN  [status |-> "ok", shape |-> v.shape, data |-> SeqMap(at, v.data)]

\* rv.pdf(v, loc=loc, scale=scale): keywords are accepted by a generator
\* instance only, rv_frozen.pdf takes x alone
obj_pdf_kw(rv, v, loc, scale) ==
  LET at(x) == rv_pdf(rv, x, loc, scale)
  IN  IF rv.frozen THEN Raise("TypeError")
      ELSE [status |-> "ok", shape |-> v.shape, data |-> SeqMap(at, v.data)]

obj_logpdf_kw(rv, v, loc, scale) ==
  LET at(x) == rv_logpdf(rv, x, loc, scale)
  IN  IF rv.frozen THEN Raise("TypeError")
      ELSE [status |-> "ok", shape |-> v.shape, data |-> SeqMap(at, v.data)]


\* ------------------------------------------------------------ input sets
NCallers == 2        \* concurrent callers of one Prior
Callers == 1..NCallers

RECURSIVE SeqsUpTo(_, _)
SeqsUpTo(S, n) ==
  IF n = 0 THEN {<<>>}
  ELSE LET T == SeqsUpTo(S, n - 1)
       IN  T \cup {Append(t, e) : t \in {u \in T : Len(u) = n - 1}, e \in S}

\* points at which densities are evaluated
Points ==
  {NInf, F(-1, 1), Zero, F(1, 5), F(1, 2), F(4, 5), One, F(6, 5), F(3, 2),
   F(2, 1), F(5, 1), PInf, NaN}

ArrayPoints == {F(1, 5), F(4, 5), F(6, 5)}

\* bounds with lower < upper; the unnormalised factory takes infinite ones
Lowers == {NInf, Zero, One}
Uppers == {One, F(2, 1), PInf}
UnnormedBounds == {bd \in Lowers \X Uppers : Lt(bd[1], bd[2])}
BoundedBounds == {bd \in UnnormedBounds : IsFin(bd[1]) /\ IsFin(bd[2])}

Distributions ==
  {UniformUnnormedRV(bd[1], bd[2]) : bd \in UnnormedBounds}
  \cup {UniformBoundedRV(bd[1], bd[2]) : bd \in BoundedBounds}
  \cup {DefaultUnnormedRV, DefaultBoundedRV}

ScalarInputs ==
  {PyFloat(x) : x \in Points} \cup {PyInteger(i) : i \in {-1, 0, 1, 5}}
  \cup {PyComplex(One, One), PyComplex(F(1, 2), Zero)}
  \cup {NpComplex(F(1, 2), One), NpComplex(F(3, 2), Zero)}

ArrayInputs ==
  {NdArray("float64", s) : s \in SeqsUpTo(ArrayPoints, MaxLen)}
  \cup {NdArray("int64", SeqMap(PyInt, s)) : s \in SeqsUpTo({0, 2}, MaxLen)}
  \cup {CArray(<<F(1, 2)>>, <<One>>), CArray(<<F(1, 5), F(4, 5)>>, <<Zero, Zero>>)}

SequenceInputs ==
  {PyList(s) : s \in SeqsUpTo({F(1, 5), F(4, 5)}, MaxLen)}
  \cup {SubArray(s) : s \in SeqsUpTo({F(1, 5), F(4, 5)}, MaxLen)}

Inputs == ScalarInputs \cup ArrayInputs \cup SequenceInputs

\* the smaller sets used when several callers interleave
ConcInputs == {PyFloat(F(1, 2)), PyFloat(F(3, 2)), PyComplex(One, One)}
ConcDistributions == {UniformBoundedRV(Zero, One), UniformUnnormedRV(Zero, PInf)}

\* ----------------------------------------------------------------- state
VARIABLES
  rv,       \* Prior._rv
  pc,       \* per caller: "idle", "coerced", "returned", "raised"
  meth,     \* per caller: the Prior method being run, "pdf" or "logpdf"
  arg,      \* per caller: the value passed
  v,        \* per caller: the local v after the coercion
  res,      \* per caller: what the call returned or raised
  invoked,  \* per caller: the methods of _rv invoked by the current call
  rv0,      \* the distribution Prior was constructed with
  seen,     \* completed calls <<method, value, outcome>> (several callers)
  fobj,     \* the object a factory returned to a direct client
  fcall,    \* the last direct evaluation made on fobj
  fres      \* and its outcome

priorvars == <<rv, pc, meth, arg, v, res, invoked, rv0>>
factvars == <<fobj, fcall, fres>>
vars == <<rv, pc, meth, arg, v, res, invoked, rv0, seen, fobj, fcall, fres>>

NoCall == [m |-> "none", x |-> Zero, kw |-> FALSE, loc |-> Zero, scale |-> One]

\* Prior.__init__(rv): self._rv = rv
PriorInit(dists) ==
  /\ rv \in dists
  /\ rv0 = rv
  /\ pc = [t \in Callers |-> "idle"]
  /\ meth = [t \in Callers |-> "none"]
  /\ arg = [t \in Callers |-> PyFloat(Zero)]
  /\ v = [t \in Callers |-> None]
  /\ res = [t \in Callers |-> None]
  /\ invoked = [t \in Callers |-> <<>>]

\* Prior.pdf / Prior.logpdf up to the delegation: the type dispatch and the
\* coercion of value into v; an exception of the coercion leaves the call
Enter(t, m, value) ==
  /\ pc[t] \in {"idle", "returned", "raised"}
  /\ meth' = [meth EXCEPT ![t] = m]
  /\ arg' = [arg EXCEPT ![t] = value]
  /\ invoked' = [invoked EXCEPT ![t] = <<>>]
  /\ LET c == coerce(value)
     IN  IF c.status = "ok"
         THEN /\ v' = [v EXCEPT ![t] = c]
              /\ res' = [res EXCEPT ![t] = None]
              /\ pc' = [pc EXCEPT ![t] = "coerced"]
         ELSE /\ v' = [v EXCEPT ![t] = None]
              /\ res' = [res EXCEPT ![t] = c]
              /\ pc' = [pc EXCEPT ![t] = "raised"]
  /\ UNCHANGED <<rv, rv0>>

PdfCoerce(t, value) == Enter(t, "pdf", value)

LogpdfCoerce(t, value) == Enter(t, "logpdf", value)

\* variant: pdf rebinds self._rv while delegating
PdfDelegate_rebind(t) ==
  /\ pc[t] = "coerced" /\ meth[t] = "pdf"
  /\ res' = [res EXCEPT ![t] = obj_pdf(rv, v[t])]
  /\ invoked' = [invoked EXCEPT ![t] = Append(@, "pdf")]
  /\ pc' = [pc EXCEPT ![t] = "returned"]
  /\ rv' = DefaultUnnormedRV
  /\ UNCHANGED <<rv0, meth, arg, v>>

\* variant: pdf delegates to self._rv.logpdf
PdfDelegate_logpdf(t) ==
  /\ pc[t] = "coerced" /\ meth[t] = "pdf"
  /\ res' = [res EXCEPT ![t] = obj_logpdf(rv, v[t])]
  /\ invoked' = [invoked EXCEPT ![t] = Append(@, "logpdf")]
  /\ pc' = [pc EXCEPT ![t] = "returned"]
  /\ UNCHANGED <<rv, rv0, meth, arg, v>>

\* return self._rv.pdf(v)
PdfDelegate(t) ==
  /\ pc[t] = "coerced" /\ meth[t] = "pdf"
  /\ res' = [res EXCEPT ![t] = obj_pdf(rv, v[t])]
  /\ invoked' = [invoked EXCEPT ![t] = Append(@, "pdf")]
  /\ pc' = [pc EXCEPT ![t] = "returned"]
  /\ UNCHANGED <<rv, rv0, meth, arg, v>>

\* variant: logpdf delegates to self._rv.pdf
LogpdfDelegate_pdf(t) ==
  /\ pc[t] = "coerced" /\ meth[t] = "logpdf"
  /\ res' = [res EXCEPT ![t] = obj_pdf(rv, v[t])]
  /\ invoked' = [invoked EXCEPT ![t] = Append(@, "pdf")]
  /\ pc' = [pc EXCEPT ![t] = "returned"]
  /\ UNCHANGED <<rv, rv0, meth, arg, v>>

\* return self._rv.logpdf(v)
LogpdfDelegate(t) ==
  /\ pc[t] = "coerced" /\ meth[t] = "logpdf"
  /\ res' = [res EXCEPT ![t] = obj_logpdf(rv, v[t])]
  /\ invoked' = [invoked EXCEPT ![t] = Append(@, "logpdf")]
  /\ pc' = [pc EXCEPT ![t] = "returned"]
  /\ UNCHANGED <<rv, rv0, meth, arg, v>>

\* ---- one caller, every input
Init ==
  /\ PriorInit(Distributions)
  /\ seen = {}
  /\ fobj = DefaultBoundedRV /\ fcall = NoCall /\ fres = None

Next ==
  \/ \E value \in Inputs : PdfCoerce(1, value) /\ UNCHANGED <<seen, factvars>>
  \/ \E value \in Inputs : LogpdfCoerce(1, value) /\ UNCHANGED <<seen, factvars>>
  \/ PdfDelegate(1) /\ UNCHANGED <<seen, factvars>>
  \/ LogpdfDelegate(1) /\ UNCHANGED <<seen, factvars>>

Spec == Init /\ [][Next]_vars

\* ---- several callers interleaving on one Prior, with the record of the
\* calls that completed
Done(t) ==
  IF pc'[t] \in {"returned", "raised"}
  THEN seen' = seen \cup {<<meth'[t], arg'[t], res'[t]>>}
  ELSE seen' = seen

InitConc ==
  /\ PriorInit(ConcDistributions)
  /\ seen = {}
  /\ fobj = DefaultBoundedRV /\ fcall = NoCall /\ fres = None

NextConc ==
  \/ \E t \in Callers, value \in ConcInputs :
        PdfCoerce(t, value) /\ Done(t) /\ UNCHANGED factvars
  \/ \E t \in Callers, value \in ConcInputs :
        LogpdfCoerce(t, value) /\ Done(t) /\ UNCHANGED factvars
  \/ \E t \in Callers : PdfDelegate(t) /\ Done(t) /\ UNCHANGED factvars
  \/ \E t \in Callers : LogpdfDelegate(t) /\ Done(t) /\ UNCHANGED factvars

SpecConc == InitConc /\ [][NextConc]_vars

\* ---- a client that calls a factory and evaluates the returned object
\* itself, with or without the loc / scale keywords
KwLocs == {Zero, One}
KwScales == {One, F(2, 1)}

CallUnnormedRV(lower, upper) ==
  /\ fobj' = UniformUnnormedRV(lower, upper)
  /\ fcall' = NoCall /\ fres' = None
  /\ UNCHANGED <<priorvars, seen>>

CallBoundedRV(lower, upper) ==
  /\ fobj' = UniformBoundedRV(lower, upper)
  /\ fcall' = NoCall /\ fres' = None
  /\ UNCHANGED <<priorvars, seen>>

EvalX(m, x) ==
  /\ fcall' = [m |-> m, x |-> x, kw |-> FALSE, loc |-> Zero, scale |-> One]
  /\ fres' = IF m = "pdf" THEN obj_pdf(fobj, Scalar(x))
             ELSE obj_logpdf(fobj, Scalar(x))
  /\ UNCHANGED <<fobj, priorvars, seen>>

EvalKw(m, x, loc, scale) ==
  /\ fcall' = [m |-> m, x |-> x, kw |-> TRUE, loc |-> loc, scale |-> scale]
  /\ fres' = IF m = "pdf" THEN obj_pdf_kw(fobj, Scalar(x), loc, scale)
             ELSE obj_logpdf_kw(fobj, Scalar(x), loc, scale)
  /\ UNCHANGED <<fobj, priorvars, seen>>

InitFactory ==
  /\ PriorInit({DefaultBoundedRV})
  /\ seen = {}
  /\ fobj \in {DefaultUnnormedRV, DefaultBoundedRV}
  /\ fcall = NoCall /\ fres = None

NextFactory ==
  \/ \E bd \in UnnormedBounds : CallUnnormedRV(bd[1], bd[2])
  \/ \E bd \in BoundedBounds : CallBoundedRV(bd[1], bd[2])
  \/ \E m \in {"pdf", "logpdf"}, x \in Points : EvalX(m, x)
  \/ \E m \in {"pdf", "logpdf"}, x \in Points, loc \in KwLocs, scale \in KwScales :
        EvalKw(m, x, loc, scale)

SpecFactory == InitFactory /\ [][NextFactory]_vars


\* ================================================================ claims
\* caller t has a call to method m that returned
Returned(t, m) == pc[t] = "returned" /\ meth[t] = m /\ res[t].status = "ok"

\* caller t has made a call (it may still be between coercion and delegation)
Called(t) == pc[t] # "idle"

Inside(lo, x, hi) == Leq(lo, x) /\ Leq(x, hi)
Outside(lo, x, hi) == Lt(x, lo) \/ Lt(hi, x)

\* C1: on the distribution of UniformUnnormedRV(lower, upper), lower < upper
\* finite or infinite (the defaults included), pdf is 1.0 at every point of
\* [lower, upper] and 0.0 at every point below lower or above upper.
C1_UnnormedPdf ==
  \A bd \in UnnormedBounds \cup {<<NInf, PInf>>} :
    (rv = UniformUnnormedRV(bd[1], bd[2]) /\ Returned(1, "pdf")) =>
      \A i \in 1..Len(v[1].data) :
        LET x == v[1].data[i]
        IN  /\ Inside(bd[1], x, bd[2]) => res[1].data[i] = One
            /\ Outside(bd[1], x, bd[2]) => res[1].data[i] = Zero

C1_Witness ==
  /\ rv = UniformUnnormedRV(One, PInf)
  /\ Returned(1, "pdf")
  /\ arg[1] = NdArray("int64", <<PyInt(0), PyInt(2)>>)
  /\ res[1] = Array(<<Zero, One>>)

\* C2: on the distribution of UniformBoundedRV(lower, upper), lower < upper
\* finite, pdf is 1/(upper-lower) at every point of [lower, upper] and 0.0
\* outside it; the default bounds give the interval [0, 1].
C2_BoundedPdf ==
  /\ \A bd \in BoundedBounds :
       (rv = UniformBoundedRV(bd[1], bd[2]) /\ Returned(1, "pdf")) =>
         \A i \in 1..Len(v[1].data) :
           LET x == v[1].data[i]
           IN  /\ Inside(bd[1], x, bd[2]) =>
                    res[1].data[i] = Div(One, Sub(bd[2], bd[1]))
               /\ Outside(bd[1], x, bd[2]) => res[1].data[i] = Zero
  /\ (rv = DefaultBoundedRV /\ Returned(1, "pdf")) =>
       \A i \in 1..Len(v[1].data) :
         /\ Inside(Zero, v[1].data[i], One) => res[1].data[i] = One
         /\ Outside(Zero, v[1].data[i], One) => res[1].data[i] = Zero

C2_Witness ==
  /\ rv = UniformBoundedRV(Zero, F(2, 1))
  /\ Returned(1, "pdf")
  /\ arg[1] = PyFloat(F(3, 2))
  /\ res[1] = Scalar(F(1, 2))

\* C3: on the distribution of UniformUnnormedRV(lower, upper), logpdf is 0.0
\* at every point of [lower, upper].
C3_UnnormedLogpdf ==
  \A bd \in UnnormedBounds \cup {<<NInf, PInf>>} :
    (rv = UniformUnnormedRV(bd[1], bd[2]) /\ Returned(1, "logpdf")) =>
      \A i \in 1..Len(v[1].data) :
        Inside(bd[1], v[1].data[i], bd[2]) => res[1].data[i] = Zero

C3_Witness ==
  /\ rv = UniformUnnormedRV(Zero, PInf)
  /\ Returned(1, "logpdf")
  /\ arg[1] = PyFloat(F(5, 1))
  /\ res[1] = Scalar(Zero)

\* C4: for a Prior on either factory's distribution, logpdf(x) is the
\* logarithm of pdf(x) wherever pdf(x) > 0 and minus infinity wherever
\* pdf(x) = 0.
C4_LogpdfIsLogOfPdf ==
  Returned(1, "logpdf") =>
    LET dens == obj_pdf(rv, v[1])
    IN  \A i \in 1..Len(v[1].data) :
          /\ Lt(Zero, dens.data[i]) => res[1].data[i] = Log(dens.data[i])
          /\ dens.data[i] = Zero => res[1].data[i] = NInf

C4_Witness ==
  /\ rv = UniformBoundedRV(Zero, F(2, 1))
  /\ Returned(1, "logpdf")
  /\ arg[1] = NdArray("int64", <<PyInt(0), PyInt(2)>>)
  /\ res[1] = Array(<<Log(F(1, 2)), Log(F(1, 2))>>)

\* C5: pdf and logpdf keep the shape of their input: a scalar gives a
\* scalar, a real array of length N is accepted and gives an array of length
\* N whose i-th entry is the (log-)density of the i-th element, 0.0 (pdf)
\* outside the support; [0.2, 0.8, 1.2] on UniformBoundedRV(0, 1) gives
\* [1.0, 1.0, 0.0].
C5_ShapePreserved ==
  /\ (Called(1) /\ arg[1].ty \in {"float", "int"}) =>
        /\ pc[1] # "raised"
        /\ pc[1] = "returned" => res[1].shape = "scalar" /\ Len(res[1].data) = 1
  /\ (Called(1) /\ arg[1].ty = "ndarray" /\ arg[1].dtype \in {"float64", "int64"}) =>
        /\ pc[1] # "raised"
        /\ pc[1] = "returned" =>
             /\ res[1].shape = "array"
             /\ Len(res[1].data) = Len(arg[1].data)
             /\ \A i \in 1..Len(arg[1].data) :
                  LET x == ToF64(arg[1].data[i])
                      one == IF meth[1] = "pdf" THEN obj_pdf(rv, Scalar(x))
                             ELSE obj_logpdf(rv, Scalar(x))
                  IN  /\ res[1].data[i] = one.data[1]
                      /\ (meth[1] = "pdf" /\ ~IsNan(x)
                          /\ ~Inside(rv.a, Div(Sub(x, rv.loc), rv.scale), rv.b))
                         => res[1].data[i] = Zero
  /\ (rv = UniformBoundedRV(Zero, One) /\ Returned(1, "pdf")
      /\ arg[1] = NdArray("float64", <<F(1, 5), F(4, 5), F(6, 5)>>))
     => res[1] = Array(<<One, One, Zero>>)

C5_Witness ==
  /\ rv = UniformBoundedRV(Zero, One)
  /\ Returned(1, "pdf")
  /\ arg[1] = NdArray("float64", <<F(1, 5), F(4, 5), F(6, 5)>>)
  /\ res[1] = Array(<<One, One, Zero>>)

\* C6: _rv is never replaced: whatever pdf and logpdf calls have run, from
\* one caller or interleaved from several, succeeding or raising, _rv is the
\* distribution given at construction and two completed calls of the same
\* method on the same value have the same outcome.
C6_RvImmutable ==
  /\ rv = rv0
  /\ \A c1, c2 \in seen : (c1[1] = c2[1] /\ c1[2] = c2[2]) => c1[3] = c2[3]

C6_Witness ==
  /\ pc[1] = "coerced" /\ pc[2] = "returned"
  /\ arg[1] = arg[2]
  /\ \E c \in seen : c[3].status = "TypeError"
  /\ \E c \in seen : c[1] = meth[1] /\ c[2] = arg[1] /\ c[3].status = "ok"

\* C7: pdf and logpdf raise a cast error, before _rv is called, for every
\* complex input (Python or numpy scalar, or complex array), and succeed for
\* every real scalar and every real or integer array.
C7_ComplexRejected ==
  Called(1) =>
    /\ arg[1].dtype \in {"complex", "complex128"} =>
         pc[1] = "raised" /\ res[1].status = "TypeError" /\ invoked[1] = <<>>
    /\ (arg[1].ty \in {"float", "int"}
        \/ (arg[1].ty = "ndarray" /\ arg[1].dtype \in {"float64", "int64"})) =>
         pc[1] # "raised"

\* C8: Prior is transparent: an accepted call returns what the method of the
\* same name of _rv returns on the coerced value, and invokes that method
\* once and no other; a rejected call invokes nothing.  On
\* Prior(UniformBoundedRV(0, 1)): pdf(0.5) = 1.0, pdf(1.5) = 0.0,
\* logpdf(0.5) = 0.0.
C8_Transparent ==
  /\ pc[1] = "returned" =>
       /\ invoked[1] = <<meth[1]>>
       /\ meth[1] = "pdf" => res[1] = obj_pdf(rv, coerce(arg[1]))
       /\ meth[1] = "logpdf" => res[1] = obj_logpdf(rv, coerce(arg[1]))
  /\ pc[1] \in {"raised", "coerced"} => invoked[1] = <<>>
  /\ (rv = UniformBoundedRV(Zero, One) /\ pc[1] = "returned") =>
       /\ (meth[1] = "pdf" /\ arg[1] = PyFloat(F(1, 2))) => res[1] = Scalar(One)
       /\ (meth[1] = "pdf" /\ arg[1] = PyFloat(F(3, 2))) => res[1] = Scalar(Zero)
       /\ (meth[1] = "logpdf" /\ arg[1] = PyFloat(F(1, 2))) => res[1] = Scalar(Zero)

C8_Witness ==
  /\ rv = UniformBoundedRV(Zero, One)
  /\ Returned(1, "logpdf")
  /\ arg[1] = PyFloat(F(1, 2))
  /\ res[1] = Scalar(Zero)
  /\ invoked[1] = <<"logpdf">>

\* C9: the object a factory returns is frozen: its location and scale are
\* fixed, so every evaluation of pdf or logpdf at x that it accepts gives the
\* density of x alone.
C9_FactoryFrozen ==
  (fcall.m # "none" /\ fres.status = "ok") =>
    fres = IF fcall.m = "pdf" THEN obj_pdf(fobj, Scalar(fcall.x))
           ELSE obj_logpdf(fobj, Scalar(fcall.x))

\* C10: the dispatch is on the exact type: only an ndarray is cast
\* element-wise; every other value takes the scalar coercion, so a sequence
\* of more than one number that is not exactly an ndarray is rejected with
\* an error and _rv is not called.
C10_ExactTypeDispatch ==
  Called(1) =>
    /\ (arg[1].ty # "ndarray" /\ Len(arg[1].data) > 1) =>
         pc[1] = "raised" /\ res[1].status = "TypeError" /\ invoked[1] = <<>>
    /\ (arg[1].ty # "ndarray" /\ pc[1] # "raised") => v[1].shape = "scalar"
    /\ (arg[1].ty = "ndarray" /\ pc[1] # "raised") =>
         v[1].shape = "array" /\ Len(v[1].data) = Len(arg[1].data)

C10_Witness ==
  /\ arg[1] = SubArray(<<F(1, 5), F(4, 5)>>)
  /\ meth[1] = "pdf"
  /\ pc[1] = "raised"
  /\ res[1] = Raise("TypeError")

====
